---- MODULE Spec2Model ----
(***************************************************************************)
(* Model of the ingestion pipeline of src/transcriber/transcriber.py:      *)
(* the watch loop (MP3Handler.on_created), the debounced dispatcher        *)
(* (FileProcessor.process_file), the probe/duration pool tasks             *)
(* (_wait_and_process, _check_duration_and_process,                        *)
(* _attempt_repair_and_retry) and the transcription pool tasks             *)
(* (_transcribe_and_organize), running over a shared file system, the      *)
(* lock table file_locks and the debounce table file_times; the shutdown   *)
(* on SIGINT (MP3Handler.stop, main); and FileUtils.wait_for_file_stability *)
(* as a function of the size samples it takes.                             *)
(*                                                                         *)
(* Units: the clock and debounce_seconds are in seconds; durations and     *)
(* duration_threshold are in half seconds (0.50 s = 1).                    *)
(***************************************************************************)
EXTENDS Integers, Sequences, FiniteSets, TLC

(***************************************************************************)
(* Bounds of the model.                                                    *)
(***************************************************************************)
\* number of distinct audio files the scanner may drop into the inbox
MaxFiles == 1
\* number of calls of process_file (dispatched or debounced)
MaxCalls == 3
\* the clock runs from StartTime to StartTime + MaxElapsed
MaxElapsed == 4
\* a file is created with size 1 and may grow up to MaxSize while written
MaxSize == 2
\* durations (in half seconds) range over 0..MaxDur
MaxDur == 1
\* files of the bounded-parallelism scenario (SpecPool)
PoolFiles == 3
\* calls of process_file and clock range of the shutdown scenario
ShutCalls == 2
ShutElapsed == 2
\* length of the sample sequences given to the stability prober (SpecProbe)
MaxSamples == 5
\* files of the busy-transcription scenario (SpecCheap)
CheapFiles == 4

(***************************************************************************)
(* Program constants (FileProcessingConfig, lines 104-111).                *)
(***************************************************************************)
duration_threshold == 1
debounce_seconds == 1
stability_duration == 2
max_duration_workers == 15
max_transcription_workers == 2

\* time.time() at start-up: any value far above debounce_seconds
StartTime == 2

(***************************************************************************)
(* File names and paths.  A name is a tuple of characters, a path is a     *)
(* tuple of components whose last one is the name.                         *)
(***************************************************************************)
Digits == <<"0", "1", "2", "3", "4", "5", "6", "7", "8", "9">>

IsDigit(c) == \E k \in 1..Len(Digits) : Digits[k] = c

Mp3 == <<".", "m", "p", "3">>

\* the i-th file name of the model: a.mp3, TO_2.mp3, TO_3_x.mp3, TO_4.mp3 ...
FileName(i) ==
    IF i = 1 THEN <<"a">> \o Mp3
    ELSE IF i = 3 THEN <<"T", "O", "_", "3", "_", "x">> \o Mp3
    ELSE <<"T", "O", "_", Digits[(i % 10) + 1]>> \o Mp3

FileNames(n) == { FileName(i) : i \in 1..n }

ROOT_DIRECTORY == << <<"w">> >>
TOO_SHORT_DIRECTORY == << <<"s">> >>
ERROR_DIRECTORY == << <<"e">> >>

Unknown == <<"u", "n", "k", "n", "o", "w", "n">>

\* pathlib: dir / name
Join(dir, name) == Append(dir, name)
\* pathlib: path.name, path.parent
NameOf(path) == path[Len(path)]
ParentOf(path) == SubSeq(path, 1, Len(path) - 1)

\* position of the last dot of a name that starts a suffix (0: no suffix)
LastDot(name) ==
    LET dots == { k \in 2..Len(name) : name[k] = "." }
    IN  IF dots = {} \/ name[Len(name)] = "." THEN 0
        ELSE CHOOSE k \in dots : \A m \in dots : m <= k

\* pathlib: path.suffix, path.stem
SuffixOf(name) ==
    IF LastDot(name) = 0 THEN <<>> ELSE SubSeq(name, LastDot(name), Len(name))
StemOf(name) ==
    IF LastDot(name) = 0 THEN name ELSE SubSeq(name, 1, LastDot(name) - 1)

\* length of the run of digits of s that starts at position k
RECURSIVE DigitRun(_, _)
DigitRun(s, k) ==
    IF k <= Len(s) /\ IsDigit(s[k]) THEN 1 + DigitRun(s, k + 1) ELSE 0

\* re.search(r"TO_(\d+)[._]", s) matches at position k
MatchAt(s, k) ==
    /\ k + 3 <= Len(s)
    /\ s[k] = "T" /\ s[k + 1] = "O" /\ s[k + 2] = "_"
    /\ DigitRun(s, k + 3) >= 1
    /\ k + 3 + DigitRun(s, k + 3) <= Len(s)
    /\ s[k + 3 + DigitRun(s, k + 3)] \in {".", "_"}

\* FileUtils.extract_talkgroup_id: the digits of the leftmost match
extract_talkgroup_id(s) ==
    LET hits == { k \in 1..Len(s) : MatchAt(s, k) }
    IN  IF hits = {} THEN Unknown
        ELSE LET k == CHOOSE h \in hits : \A m \in hits : h <= m
             IN  SubSeq(s, k + 3, k + 2 + DigitRun(s, k + 3))

\* the places of one inbox path
InboxPath(name) == Join(ROOT_DIRECTORY, name)
ShortPath(path) == Join(TOO_SHORT_DIRECTORY, NameOf(path))
ErrorPath(path) == Join(ERROR_DIRECTORY, NameOf(path))
TempPath(path) ==
    Join(ERROR_DIRECTORY, StemOf(NameOf(path)) \o <<"_", "t", "e", "m", "p">> \o SuffixOf(NameOf(path)))
TargetDir(path) == Join(ROOT_DIRECTORY, extract_talkgroup_id(NameOf(path)))
TargetPath(path) == Join(TargetDir(path), NameOf(path))
TextPath(path) == Join(TargetDir(path), StemOf(NameOf(path)) \o <<".", "t", "x", "t">>)

(***************************************************************************)
(* File contents.  What the pipeline can observe of an audio file: whether *)
(* the metadata reader (mutagen) can read it and the duration it reports,  *)
(* what the re-encoder (ffmpeg) makes of it, and its size in bytes.        *)
(*   fixable      ffmpeg exits 0 and leaves an output file                 *)
(*   partial      ffmpeg exits non-zero and leaves a partial output file   *)
(*   fixReadable  the output of a successful re-encode is readable         *)
(*   fixDur       the duration of that output                              *)
(***************************************************************************)
Durations == 0..MaxDur

GoodFile(d) ==
    [readable |-> TRUE, dur |-> d, fixable |-> TRUE, partial |-> FALSE,
     fixReadable |-> TRUE, fixDur |-> d, size |-> 1]

BadFile(fx, pt, fr, fd) ==
    [readable |-> FALSE, dur |-> 0, fixable |-> fx, partial |-> pt,
     fixReadable |-> fr, fixDur |-> fd, size |-> 1]

\* readable files of every duration
GoodKinds == { GoodFile(d) : d \in Durations }

\* unreadable files: the re-encode fails (leaving a partial output or none),
\* or succeeds with an output that is unreadable again or readable
BadKinds ==
    { BadFile(FALSE, pt, FALSE, 0) : pt \in BOOLEAN }
    \cup { BadFile(TRUE, FALSE, FALSE, 0) }
    \cup { BadFile(TRUE, FALSE, TRUE, d) : d \in Durations }

AllKinds == GoodKinds \cup BadKinds

\* the output file of a successful ffmpeg run on a file with contents c
Reencoded(c) ==
    [readable |-> c.fixReadable, dur |-> c.fixDur, fixable |-> c.fixReadable,
     partial |-> FALSE, fixReadable |-> c.fixReadable, fixDur |-> c.fixDur,
     size |-> 0]

\* what a failed ffmpeg run leaves behind when it had started writing
PartialOutput ==
    [readable |-> FALSE, dur |-> 0, fixable |-> FALSE, partial |-> FALSE,
     fixReadable |-> FALSE, fixDur |-> 0, size |-> 0]

(***************************************************************************)
(* Dictionaries and the file system as finite maps.                        *)
(***************************************************************************)
Has(d, k) == k \in DOMAIN d
Get(d, k, default) == IF k \in DOMAIN d THEN d[k] ELSE default
Put(d, k, v) == [x \in DOMAIN d \cup {k} |-> IF x = k THEN v ELSE d[x]]
Del(d, k) == [x \in DOMAIN d \ {k} |-> d[x]]
\* mutant: a copy that leaves the source in place
RenameKeepingSource(d, src, dst) == Put(d, dst, d[src])

\* os.rename: the destination is replaced when it exists
Rename(d, src, dst) == Put(Del(d, src), dst, d[src])

(***************************************************************************)
(* State.                                                                  *)
(***************************************************************************)
VARIABLES
    files,       \* audio files on disk: path -> contents
    texts,       \* transcript files on disk: set of paths
    dirs,        \* grouping directories created under the watch directory
    now,         \* time.time()
    probe,       \* one call of wait_for_file_stability on a given sample sequence
    phase,       \* "watching", "stopped" (observer stopped by the interrupt
                 \* handler) or "exiting" (main returned, the interpreter exits)
    file_times,  \* FileProcessor.file_times: path -> last dispatch time
    file_locks,  \* FileProcessor.file_locks: path -> lock object
    held,        \* the lock objects that are currently held
    dtasks,      \* tasks submitted to duration_pool, in submission order
    ttasks,      \* tasks submitted to transcription_pool, in submission order
    dropped,     \* history: name -> contents of the file as the scanner dropped it
    calls,       \* history: path -> the process_file calls for it, in order
    engineLog    \* history: path -> the engine invocations and results, in order

vars == <<files, texts, dirs, now, phase, probe, file_times, file_locks, held, dtasks,
          ttasks, dropped, calls, engineLog>>

EmptyMap == [x \in {} |-> 0]

\* no stability probe under observation
NoProbe ==
    [samples |-> <<>>, pos |-> 0, previous_size |-> -1, stable_time |-> 0,
     result |-> "none"]

\* the pipeline after FileProcessor.__init__ and main: nothing seen yet
Idle ==
    /\ files = EmptyMap
    /\ texts = {}
    /\ dirs = {}
    /\ now = StartTime
    /\ phase = "watching"
    /\ file_times = EmptyMap
    /\ file_locks = EmptyMap
    /\ held = {}
    /\ dtasks = <<>>
    /\ ttasks = <<>>
    /\ dropped = EmptyMap
    /\ calls = EmptyMap
    /\ engineLog = EmptyMap

Init == Idle /\ probe = NoProbe

(***************************************************************************)
(* ThreadPoolExecutor: a submitted task waits in a FIFO queue until one of *)
(* the pool's max_workers threads is idle.                                 *)
(***************************************************************************)
Running(tasks) == { i \in 1..Len(tasks) : tasks[i].pc \notin {"queued", "done"} }

\* mutant: a pool that starts a thread for every task
IdleWorkerUnbounded(tasks, max_workers) == Cardinality(Running(tasks)) >= 0

IdleWorker(tasks, max_workers) == Cardinality(Running(tasks)) < max_workers

NextQueued(tasks, i) ==
    /\ i \in 1..Len(tasks)
    /\ tasks[i].pc = "queued"
    /\ \A k \in 1..(i - 1) : tasks[k].pc # "queued"

\* duration_pool.submit(self._wait_and_process, file_path)
\* stages is history: what the task has done after its probe, in order, as
\* pairs <<"read", d>>, <<"reencode", ok>>, <<"reread", d>> (d the duration
\* read, -1 for FileFormatError; ok 1 or 0) and <<"submit", j>> (j the index
\* of the transcription task, 0 when the submit raised)
NewDTask(path) ==
    [path |-> path, pc |-> "queued", previous_size |-> -1, stable_time |-> 0,
     stable |-> "none", stages |-> <<>>]

\* transcription_pool.submit(self._transcribe_and_organize, file_path)
NewTTask(path) ==
    [path |-> path, pc |-> "queued", lock |-> 0, outcome |-> "none", exc |-> FALSE]

SetPc(tasks, i, pc) == [tasks EXCEPT ![i].pc = pc]

\* the same, with the stages the step went through added to the history
Staged(tasks, i, pc, events) ==
    [tasks EXCEPT ![i].pc = pc, ![i].stages = @ \o events]

\* what get_audio_duration gives the caller: the duration, or -1 for
\* FileFormatError
DurationRead(fs, path) ==
    IF Has(fs, path) /\ fs[path].readable THEN fs[path].dur ELSE -1

\* ThreadPoolExecutor.submit raises RuntimeError ("cannot schedule new futures
\* after interpreter shutdown") once the interpreter has begun to exit
CanSubmit == phase # "exiting"

\* mutant: a pool without a queue, whose submit waits for a free worker
SubmitWaitsForWorker(tasks, max_workers) ==
    Cardinality({ j \in 1..Len(tasks) : tasks[j].pc # "done" }) < max_workers

\* ThreadPoolExecutor.submit puts the work item on the pool's unbounded queue
\* and returns, whatever the number of items and of busy workers
SubmitReturns(tasks, max_workers) ==
    Cardinality({ j \in 1..Len(tasks) : tasks[j].pc # "done" }) >= 0

\* an append to a history log
Logged(log, k, e) == Put(log, k, Append(Get(log, k, <<>>), e))

(***************************************************************************)
(* The environment: the scanner writing files, the clock, file events.     *)
(***************************************************************************)
\* the scanner creates a file in the inbox (at most once per name)
Create(name, kind, maxFiles) ==
    /\ ~Has(dropped, name)
    /\ Cardinality(DOMAIN dropped) < maxFiles
    /\ files' = Put(files, InboxPath(name), kind)
    /\ dropped' = Put(dropped, name, kind)
    /\ UNCHANGED <<texts, dirs, now, phase, probe, file_times, file_locks, held, dtasks,
                   ttasks, calls, engineLog>>

\* the scanner appends to a file it created, as long as it is in the inbox
Grow(name) ==
    LET path == InboxPath(name) IN
    /\ Has(files, path)
    /\ files[path].size >= 1
    /\ files[path].size < MaxSize
    /\ files' = [files EXCEPT ![path].size = @ + 1]
    /\ UNCHANGED <<texts, dirs, now, phase, probe, file_times, file_locks, held, dtasks,
                   ttasks, dropped, calls, engineLog>>

NumCalls ==
    LET RECURSIVE Sum(_)
        Sum(S) == IF S = {} THEN 0
                  ELSE LET k == CHOOSE x \in S : TRUE
                       IN  Len(calls[k]) + Sum(S \ {k})
    IN  Sum(DOMAIN calls)

\* time passes; only process_file reads the clock
Tick(maxElapsed) ==
    /\ now < StartTime + maxElapsed
    /\ NumCalls < MaxCalls
    /\ now' = now + 1
    /\ UNCHANGED <<files, texts, dirs, phase, probe, file_times, file_locks, held, dtasks,
                   ttasks, dropped, calls, engineLog>>

(***************************************************************************)
(* Shutdown.  The SIGINT handler of main (line 577) calls MP3Handler.stop, *)
(* which stops and joins the observer; observer.join() in start then       *)
(* returns, main returns, and the interpreter exits: it refuses new        *)
(* submits and waits for the worker threads, which first run every task    *)
(* that is already in their queues.                                        *)
(***************************************************************************)
stop ==
    /\ phase = "watching"
    /\ phase' = "stopped"
    /\ UNCHANGED <<files, texts, dirs, now, probe, file_times, file_locks, held,
                   dtasks, ttasks, dropped, calls, engineLog>>

\* handler.start() returns and main ends (lines 580-584)
MainReturns ==
    /\ phase = "stopped"
    /\ phase' = "exiting"
    /\ UNCHANGED <<files, texts, dirs, now, probe, file_times, file_locks, held,
                   dtasks, ttasks, dropped, calls, engineLog>>

(***************************************************************************)
(* FileProcessor.process_file and MP3Handler.on_created                    *)
(***************************************************************************)
\* mutant: the debounce test with >= for >
DebouncePassedInclusive(current_time, last_processed) ==
    current_time - last_processed >= debounce_seconds

\* the debounce test of process_file (line 330)
DebouncePassed(current_time, last_processed) ==
    current_time - last_processed > debounce_seconds

\* the probes of a path that have returned False so far
FailedProbes(path) ==
    { i \in 1..Len(dtasks) : dtasks[i].path = path /\ dtasks[i].stable = "false" }

\* calls is history: per call its time t, whether it dispatched (d) and the
\* number of probes of the path that had returned False before it (failed)
process_file(file_path) ==
    LET current_time == now
        last_processed == Get(file_times, file_path, 0)
        failed == Cardinality(FailedProbes(file_path))
    IN  IF DebouncePassed(current_time, last_processed)
        THEN /\ file_times' = Put(file_times, file_path, current_time)
             /\ dtasks' = Append(dtasks, NewDTask(file_path))
             /\ calls' = Logged(calls, file_path,
                                [t |-> current_time, d |-> TRUE, failed |-> failed])
        ELSE /\ UNCHANGED <<file_times, dtasks>>
             /\ calls' = Logged(calls, file_path,
                                [t |-> current_time, d |-> FALSE, failed |-> failed])

\* the events the observer can deliver: a creation event for a file the
\* scanner dropped, for a grouping directory, or for a transcript file
Events ==
    { [is_directory |-> FALSE, src_path |-> InboxPath(n)] : n \in DOMAIN dropped }
    \cup { [is_directory |-> TRUE, src_path |-> d] : d \in dirs }
    \cup { [is_directory |-> FALSE, src_path |-> p] : p \in texts }

\* every event that can occur with the first n file names
EventUniverse(n) ==
    { [is_directory |-> FALSE, src_path |-> InboxPath(f)] : f \in FileNames(n) }
    \cup { [is_directory |-> TRUE, src_path |-> TargetDir(InboxPath(f))] : f \in FileNames(n) }
    \cup { [is_directory |-> FALSE, src_path |-> TextPath(InboxPath(f))] : f \in FileNames(n) }

\* the observer delivers events until MP3Handler.stop has stopped it
on_created(event, maxCalls) ==
    /\ phase = "watching"
    /\ event \in Events
    /\ IF \/ event.is_directory
          \/ SuffixOf(NameOf(event.src_path)) # Mp3
          \/ ParentOf(event.src_path) # ROOT_DIRECTORY
       THEN UNCHANGED <<file_times, dtasks, calls>>
       ELSE /\ NumCalls < maxCalls
            /\ process_file(event.src_path)
    /\ UNCHANGED <<files, texts, dirs, now, phase, probe, file_locks, held, ttasks, dropped,
                   engineLog>>

(***************************************************************************)
(* FileProcessor._move_to_error: relocate the file when it still exists;   *)
(* a failing rename is caught and logged (lines 473-479).                  *)
(***************************************************************************)
MovedToError(fs, file_path) ==
    IF Has(fs, file_path) THEN Rename(fs, file_path, ErrorPath(file_path)) ELSE fs

(***************************************************************************)
(* Tasks of duration_pool: _wait_and_process and what it calls.  pc names  *)
(* the next statement of the task that touches shared state.               *)
(***************************************************************************)
\* a worker thread of duration_pool takes the task from the queue
DStart(i) ==
    /\ NextQueued(dtasks, i)
    /\ IdleWorker(dtasks, max_duration_workers)
    /\ dtasks' = SetPc(dtasks, i, IF 0 < stability_duration THEN "probe" ELSE "duration")
    /\ UNCHANGED <<files, texts, dirs, now, phase, probe, file_times, file_locks, held,
                   ttasks, dropped, calls, engineLog>>

\* mutant: a loop that asks for one more unchanged sample
StillUnstableInclusive(stable_time) == stable_time <= stability_duration

\* the loop test of wait_for_file_stability (line 240)
StillUnstable(stable_time) == stable_time < stability_duration

\* mutant: a probe whose failure also forgets the path's debounce entry
ProbeForgetting(i) ==
    LET t == dtasks[i] IN
    /\ i \in 1..Len(dtasks)
    /\ t.pc = "probe"
    /\ IF ~Has(files, t.path)
       THEN /\ dtasks' = [dtasks EXCEPT ![i].pc = "done", ![i].stable = "false"]
            /\ file_times' = Del(file_times, t.path)
       ELSE /\ dtasks' = [dtasks EXCEPT ![i].pc = "duration", ![i].stable = "true"]
            /\ UNCHANGED file_times
    /\ UNCHANGED <<files, texts, dirs, now, phase, probe, file_locks, held,
                   ttasks, dropped, calls, engineLog>>

\* FileUtils.wait_for_file_stability: one iteration of the loop (one size
\* sample and the sleep after it); a missing file ends the probe with False
\* and _wait_and_process returns (lines 343-345)
Probe(i) ==
    LET t == dtasks[i] IN
    /\ i \in 1..Len(dtasks)
    /\ t.pc = "probe"
    /\ IF ~Has(files, t.path)
       THEN dtasks' = [dtasks EXCEPT ![i].pc = "done", ![i].stable = "false",
                                     ![i].previous_size = -1, ![i].stable_time = 0]
       ELSE LET current_size == files[t.path].size
                stable_time == IF current_size = t.previous_size
                               THEN t.stable_time + 1 ELSE 0
            IN  IF StillUnstable(stable_time)
                THEN dtasks' = [dtasks EXCEPT ![i].previous_size = current_size,
                                              ![i].stable_time = stable_time]
                ELSE dtasks' = [dtasks EXCEPT ![i].pc = "duration",
                                              ![i].stable = "true",
                                              ![i].previous_size = -1,
                                              ![i].stable_time = 0]
    /\ UNCHANGED <<files, texts, dirs, now, phase, probe, file_times, file_locks, held,
                   ttasks, dropped, calls, engineLog>>

(***************************************************************************)
(* FileUtils.wait_for_file_stability as a function of the samples it       *)
(* takes.  A sample is <<size>>, or <<>> when stat() finds no file.        *)
(* probe.samples is the sequence the file will show, probe.pos the number  *)
(* of samples taken so far, probe.result "running" inside the loop and     *)
(* "true" or "false" once the function has returned.                       *)
(***************************************************************************)
Samples == { <<>> } \cup { <<n>> : n \in 0..MaxSize }

RECURSIVE SampleSeqs(_)
SampleSeqs(n) ==
    IF n = 0 THEN { <<>> }
    ELSE { Append(s, x) : s \in SampleSeqs(n - 1), x \in Samples }

\* lines 237-240: the initial values and the first loop test
StartProbe(samples) ==
    [samples |-> samples, pos |-> 0, previous_size |-> -1, stable_time |-> 0,
     result |-> IF StillUnstable(0) THEN "running" ELSE "true"]

\* lines 241-256: one iteration of the loop on the next sample, and the
\* loop test that follows it
Iteration(p) ==
    LET sample == p.samples[p.pos + 1] IN
    IF sample = <<>>
    THEN [p EXCEPT !.pos = @ + 1, !.result = "false"]
    ELSE LET current_size == sample[1]
             stable_time == IF current_size = p.previous_size
                            THEN p.stable_time + 1 ELSE 0
         IN  [p EXCEPT !.pos = @ + 1,
                       !.previous_size = current_size,
                       !.stable_time = stable_time,
                       !.result = IF StillUnstable(stable_time) THEN "running"
                                  ELSE "true"]

wait_for_file_stability ==
    /\ probe.result = "running"
    /\ probe.pos < Len(probe.samples)
    /\ probe' = Iteration(probe)
    /\ UNCHANGED <<files, texts, dirs, now, phase, file_times, file_locks, held,
                   dtasks, ttasks, dropped, calls, engineLog>>

\* mutant: the classification with the comparison reversed
TooShortReversed(duration) == duration > duration_threshold

\* mutant: a classification that accepts every duration
TooShortNever(duration) == duration < 0

\* the classification of _check_duration_and_process (line 364)
TooShort(duration) == duration < duration_threshold

\* FileUtils.get_audio_duration succeeds on a readable file that exists
Readable(fs, path) == Has(fs, path) /\ fs[path].readable

\* _check_duration_and_process: read the duration; too short: move next;
\* acceptable: submit to the transcription pool; FileFormatError: repair.
\* A submit that raises is caught by _wait_and_process (lines 349-351).
CheckDuration(i) ==
    LET t == dtasks[i] IN
    /\ i \in 1..Len(dtasks)
    /\ t.pc = "duration"
    /\ IF ~Readable(files, t.path)
       THEN /\ dtasks' = Staged(dtasks, i, "reencode", << <<"read", -1>> >>)
            /\ UNCHANGED ttasks
       ELSE IF TooShort(files[t.path].dur)
       THEN /\ dtasks' = Staged(dtasks, i, "move_short",
                                 << <<"read", files[t.path].dur>> >>)
            /\ UNCHANGED ttasks
       ELSE IF CanSubmit
       THEN /\ SubmitReturns(ttasks, max_transcription_workers)
            /\ dtasks' = Staged(dtasks, i, "done",
                                 << <<"read", files[t.path].dur>>,
                                    <<"submit", Len(ttasks) + 1>> >>)
            /\ ttasks' = Append(ttasks, NewTTask(t.path))
       ELSE /\ dtasks' = Staged(dtasks, i, "catch_move_error",
                                 << <<"read", files[t.path].dur>>, <<"submit", 0>> >>)
            /\ UNCHANGED ttasks
    /\ UNCHANGED <<files, texts, dirs, now, phase, probe, file_times, file_locks, held,
                   dropped, calls, engineLog>>

\* _move_to_too_short: a rename of a missing file raises, which
\* _wait_and_process catches (lines 349-351) and answers with _move_to_error
MoveToTooShort(i) ==
    LET t == dtasks[i] IN
    /\ i \in 1..Len(dtasks)
    /\ t.pc = "move_short"
    /\ IF Has(files, t.path)
       THEN /\ files' = Rename(files, t.path, ShortPath(t.path))
            /\ dtasks' = SetPc(dtasks, i, "done")
       ELSE /\ UNCHANGED files
            /\ dtasks' = SetPc(dtasks, i, "catch_move_error")
    /\ UNCHANGED <<texts, dirs, now, phase, probe, file_times, file_locks, held, ttasks,
                   dropped, calls, engineLog>>

\* FileUtils.reencode_file: ffmpeg -y -i source temp.  Without a source it
\* fails before it opens the output.
Reencode(i) ==
    LET t == dtasks[i]
        temp_path == TempPath(t.path)
    IN
    /\ i \in 1..Len(dtasks)
    /\ t.pc = "reencode"
    /\ IF Has(files, t.path) /\ files[t.path].fixable
       THEN /\ files' = Put(files, temp_path, Reencoded(files[t.path]))
            /\ dtasks' = Staged(dtasks, i, "duration2", << <<"reencode", 1>> >>)
       ELSE /\ files' = IF Has(files, t.path) /\ files[t.path].partial
                        THEN Put(files, temp_path, PartialOutput)
                        ELSE files
            /\ dtasks' = Staged(dtasks, i, "move_error", << <<"reencode", 0>> >>)
    /\ UNCHANGED <<texts, dirs, now, phase, probe, file_times, file_locks, held, ttasks,
                   dropped, calls, engineLog>>

\* _attempt_repair_and_retry: the duration read of the temp file (line 383)
CheckDuration2(i) ==
    LET t == dtasks[i]
        temp_path == TempPath(t.path)
    IN
    /\ i \in 1..Len(dtasks)
    /\ t.pc = "duration2"
    /\ dtasks' = Staged(dtasks, i,
                        IF ~Readable(files, temp_path) THEN "unlink_temp"
                        ELSE IF TooShort(files[temp_path].dur) THEN "unlink_short"
                        ELSE "unlink_keep",
                        << <<"reread", DurationRead(files, temp_path)>> >>)
    /\ UNCHANGED <<files, texts, dirs, now, phase, probe, file_times, file_locks, held,
                   ttasks, dropped, calls, engineLog>>

\* file_path.unlink(missing_ok=True) of lines 389 and 394
UnlinkOriginal(i) ==
    LET t == dtasks[i] IN
    /\ i \in 1..Len(dtasks)
    /\ t.pc \in {"unlink_short", "unlink_keep"}
    /\ files' = Del(files, t.path)
    /\ dtasks' = SetPc(dtasks, i, IF t.pc = "unlink_short" THEN "rename_short"
                                  ELSE "rename_keep")
    /\ UNCHANGED <<texts, dirs, now, phase, probe, file_times, file_locks, held, ttasks,
                   dropped, calls, engineLog>>

\* temp_path.rename(final_path) of line 390; a missing temp file raises
RenameToShort(i) ==
    LET t == dtasks[i]
        temp_path == TempPath(t.path)
    IN
    /\ i \in 1..Len(dtasks)
    /\ t.pc = "rename_short"
    /\ IF Has(files, temp_path)
       THEN /\ files' = Rename(files, temp_path, ShortPath(t.path))
            /\ dtasks' = SetPc(dtasks, i, "done")
       ELSE /\ UNCHANGED files
            /\ dtasks' = SetPc(dtasks, i, "unlink_temp")
    /\ UNCHANGED <<texts, dirs, now, phase, probe, file_times, file_locks, held, ttasks,
                   dropped, calls, engineLog>>

\* temp_path.rename(file_path) and the submit of lines 395-396; either one
\* raising is caught by the handler of lines 398-401
RenameToOriginal(i) ==
    LET t == dtasks[i]
        temp_path == TempPath(t.path)
    IN
    /\ i \in 1..Len(dtasks)
    /\ t.pc = "rename_keep"
    /\ IF Has(files, temp_path)
       THEN /\ files' = Rename(files, temp_path, t.path)
            /\ IF CanSubmit
               THEN /\ SubmitReturns(ttasks, max_transcription_workers)
                    /\ dtasks' = Staged(dtasks, i, "done",
                                         << <<"submit", Len(ttasks) + 1>> >>)
                    /\ ttasks' = Append(ttasks, NewTTask(t.path))
               ELSE /\ dtasks' = Staged(dtasks, i, "unlink_temp", << <<"submit", 0>> >>)
                    /\ UNCHANGED ttasks
       ELSE /\ UNCHANGED <<files, ttasks>>
            /\ dtasks' = SetPc(dtasks, i, "unlink_temp")
    /\ UNCHANGED <<texts, dirs, now, phase, probe, file_times, file_locks, held, dropped,
                   calls, engineLog>>

\* the handler of lines 398-401: temp_path.unlink(missing_ok=True)
UnlinkTemp(i) ==
    LET t == dtasks[i] IN
    /\ i \in 1..Len(dtasks)
    /\ t.pc = "unlink_temp"
    /\ files' = Del(files, TempPath(t.path))
    /\ dtasks' = SetPc(dtasks, i, "move_error")
    /\ UNCHANGED <<texts, dirs, now, phase, probe, file_times, file_locks, held, ttasks,
                   dropped, calls, engineLog>>

\* the _move_to_error of line 351 (pc catch_move_error) and of lines 401 and
\* 404 (pc move_error)
DMoveToError(i) ==
    LET t == dtasks[i] IN
    /\ i \in 1..Len(dtasks)
    /\ t.pc \in {"move_error", "catch_move_error"}
    /\ files' = MovedToError(files, t.path)
    /\ dtasks' = SetPc(dtasks, i, "done")
    /\ UNCHANGED <<texts, dirs, now, phase, probe, file_times, file_locks, held, ttasks,
                   dropped, calls, engineLog>>

(***************************************************************************)
(* Tasks of transcription_pool: _transcribe_and_organize.                  *)
(***************************************************************************)
\* a worker thread of transcription_pool takes the task from the queue
TStart(j) ==
    /\ NextQueued(ttasks, j)
    /\ IdleWorker(ttasks, max_transcription_workers)
    /\ ttasks' = SetPc(ttasks, j, "setdefault")
    /\ UNCHANGED <<files, texts, dirs, now, phase, probe, file_times, file_locks, held,
                   dtasks, dropped, calls, engineLog>>

\* mutant: a get-then-store that always stores the new object
SetDefaultOverwrite(d, k, new) == Put(d, k, new)

\* dict.setdefault(key, new): the entry of the key, inserted when absent
SetDefault(d, k, new) == IF Has(d, k) THEN d ELSE Put(d, k, new)

\* lock = self.file_locks.setdefault(file_path, threading.Lock()) (line 413);
\* the lock object task j creates is named j
TSetDefault(j) ==
    LET t == ttasks[j] IN
    /\ j \in 1..Len(ttasks)
    /\ t.pc = "setdefault"
    /\ file_locks' = SetDefault(file_locks, t.path, j)
    /\ ttasks' = [ttasks EXCEPT ![j].pc = "acquire", ![j].lock = file_locks'[t.path]]
    /\ UNCHANGED <<files, texts, dirs, now, phase, probe, file_times, held, dtasks, dropped,
                   calls, engineLog>>

\* threading.Lock.acquire succeeds when nobody holds the lock object
CanAcquire(lock, holders) == lock \notin holders

\* with lock: (line 415) blocks until the lock object is free
TAcquire(j) ==
    LET t == ttasks[j] IN
    /\ j \in 1..Len(ttasks)
    /\ t.pc = "acquire"
    /\ CanAcquire(t.lock, held)
    /\ held' = held \cup {t.lock}
    /\ ttasks' = SetPc(ttasks, j, "exists")
    /\ UNCHANGED <<files, texts, dirs, now, phase, probe, file_times, file_locks, dtasks,
                   dropped, calls, engineLog>>

\* if not file_path.exists(): (line 416)
TExists(j) ==
    LET t == ttasks[j] IN
    /\ j \in 1..Len(ttasks)
    /\ t.pc = "exists"
    /\ IF Has(files, t.path)
       THEN ttasks' = SetPc(ttasks, j, "engine")
       ELSE ttasks' = [ttasks EXCEPT ![j].pc = "in_locks", ![j].outcome = "missing"]
    /\ UNCHANGED <<files, texts, dirs, now, phase, probe, file_times, file_locks, held,
                   dtasks, dropped, calls, engineLog>>

\* transcription_service.transcribe is called (line 424); the engine fails
\* at once when the file is gone
TEngineCall(j) ==
    LET t == ttasks[j] IN
    /\ j \in 1..Len(ttasks)
    /\ t.pc = "engine"
    /\ IF Has(files, t.path)
       THEN /\ ttasks' = SetPc(ttasks, j, "engine_run")
            /\ engineLog' = Logged(engineLog, t.path, "call")
       ELSE /\ ttasks' = [ttasks EXCEPT ![j].pc = "move_error", ![j].outcome = "failed"]
            /\ engineLog' = Logged(Logged(engineLog, t.path, "call"), t.path, "failed")
    /\ UNCHANGED <<files, texts, dirs, now, phase, probe, file_times, file_locks, held,
                   dtasks, dropped, calls>>

\* the engine returns the text or raises TranscriptionError
TEngineReturn(j, ok) ==
    LET t == ttasks[j] IN
    /\ j \in 1..Len(ttasks)
    /\ t.pc = "engine_run"
    /\ IF ok
       THEN /\ ttasks' = [ttasks EXCEPT ![j].pc = "write", ![j].outcome = "ok"]
            /\ engineLog' = Logged(engineLog, t.path, "ok")
       ELSE /\ ttasks' = [ttasks EXCEPT ![j].pc = "move_error", ![j].outcome = "failed"]
            /\ engineLog' = Logged(engineLog, t.path, "failed")
    /\ UNCHANGED <<files, texts, dirs, now, phase, probe, file_times, file_locks, held,
                   dtasks, dropped, calls>>

\* mutant: the audio move without the transcript written before it
TWriteTextSkipped(j) ==
    /\ j \in 1..Len(ttasks)
    /\ ttasks[j].pc = "write"
    /\ dirs' = dirs \cup {TargetDir(ttasks[j].path)}
    /\ ttasks' = SetPc(ttasks, j, "move")
    /\ UNCHANGED <<files, texts, now, phase, probe, file_times, file_locks, held,
                   dtasks, dropped, calls, engineLog>>

\* target_dir.mkdir(exist_ok=True) and text_path.write_text (lines 427-433)
TWriteText(j) ==
    LET t == ttasks[j] IN
    /\ j \in 1..Len(ttasks)
    /\ t.pc = "write"
    /\ dirs' = dirs \cup {TargetDir(t.path)}
    /\ texts' = texts \cup {TextPath(t.path)}
    /\ ttasks' = SetPc(ttasks, j, "move")
    /\ UNCHANGED <<files, now, phase, probe, file_times, file_locks, held, dtasks, dropped,
                   calls, engineLog>>

\* file_path.rename(target_path) (line 437); a missing file raises and the
\* handler of lines 445-447 answers with _move_to_error
TMoveAudio(j) ==
    LET t == ttasks[j] IN
    /\ j \in 1..Len(ttasks)
    /\ t.pc = "move"
    /\ IF Has(files, t.path)
       THEN /\ files' = Rename(files, t.path, TargetPath(t.path))
            /\ ttasks' = SetPc(ttasks, j, "in_locks")
       ELSE /\ UNCHANGED files
            /\ ttasks' = SetPc(ttasks, j, "move_error")
    /\ UNCHANGED <<texts, dirs, now, phase, probe, file_times, file_locks, held, dtasks,
                   dropped, calls, engineLog>>

\* the _move_to_error of lines 443 and 447
TMoveToError(j) ==
    LET t == ttasks[j] IN
    /\ j \in 1..Len(ttasks)
    /\ t.pc = "move_error"
    /\ files' = MovedToError(files, t.path)
    /\ ttasks' = SetPc(ttasks, j, "in_locks")
    /\ UNCHANGED <<texts, dirs, now, phase, probe, file_times, file_locks, held, dtasks,
                   dropped, calls, engineLog>>

\* if file_path in self.file_locks: (lines 418 and 451)
TInLocks(j) ==
    LET t == ttasks[j] IN
    /\ j \in 1..Len(ttasks)
    /\ t.pc = "in_locks"
    /\ ttasks' = SetPc(ttasks, j, IF Has(file_locks, t.path) THEN "del" ELSE "release")
    /\ UNCHANGED <<files, texts, dirs, now, phase, probe, file_times, file_locks, held,
                   dtasks, dropped, calls, engineLog>>

\* mutant: an exit that leaves the entry in the table
TDelLockSkipped(j) ==
    /\ j \in 1..Len(ttasks)
    /\ ttasks[j].pc = "del"
    /\ ttasks' = SetPc(ttasks, j, "release")
    /\ UNCHANGED <<files, texts, dirs, now, phase, probe, file_times, file_locks,
                   held, dtasks, dropped, calls, engineLog>>

\* del self.file_locks[file_path] (lines 419 and 452); KeyError when another
\* thread deleted the entry after the test
TDelLock(j) ==
    LET t == ttasks[j] IN
    /\ j \in 1..Len(ttasks)
    /\ t.pc = "del"
    /\ IF Has(file_locks, t.path)
       THEN /\ file_locks' = Del(file_locks, t.path)
            /\ ttasks' = SetPc(ttasks, j, "release")
       ELSE /\ UNCHANGED file_locks
            /\ ttasks' = [ttasks EXCEPT ![j].pc = "release", ![j].exc = TRUE]
    /\ UNCHANGED <<files, texts, dirs, now, phase, probe, file_times, held, dtasks, dropped,
                   calls, engineLog>>

\* leaving the with block releases the lock object
TRelease(j) ==
    LET t == ttasks[j] IN
    /\ j \in 1..Len(ttasks)
    /\ t.pc = "release"
    /\ held' = held \ {t.lock}
    /\ ttasks' = SetPc(ttasks, j, "done")
    /\ UNCHANGED <<files, texts, dirs, now, phase, probe, file_times, file_locks, dtasks,
                   dropped, calls, engineLog>>

(***************************************************************************)
(* Specifications.                                                         *)
(***************************************************************************)
DStep(i) ==
    \/ DStart(i)
    \/ Probe(i)
    \/ CheckDuration(i)
    \/ MoveToTooShort(i)
    \/ Reencode(i)
    \/ CheckDuration2(i)
    \/ UnlinkOriginal(i)
    \/ RenameToShort(i)
    \/ RenameToOriginal(i)
    \/ UnlinkTemp(i)
    \/ DMoveToError(i)

TStep(j) ==
    \/ TStart(j)
    \/ TSetDefault(j)
    \/ TAcquire(j)
    \/ TExists(j)
    \/ TEngineCall(j)
    \/ \E ok \in BOOLEAN : TEngineReturn(j, ok)
    \/ TWriteText(j)
    \/ TMoveAudio(j)
    \/ TMoveToError(j)
    \/ TInLocks(j)
    \/ TDelLock(j)
    \/ TRelease(j)

Next ==
    \/ \E n \in FileNames(MaxFiles), k \in AllKinds : Create(n, k, MaxFiles)
    \/ \E n \in FileNames(MaxFiles) : Grow(n)
    \/ Tick(MaxElapsed)
    \/ \E e \in EventUniverse(MaxFiles) : on_created(e, MaxCalls)
    \/ \E i \in 1..MaxCalls : DStep(i)
    \/ \E j \in 1..MaxCalls : TStep(j)

Spec == Init /\ [][Next]_vars

(***************************************************************************)
(* The bounded-parallelism scenario: PoolFiles readable files, each        *)
(* dispatched once at start-up time, so that more files are accepted than  *)
(* the transcription pool has workers.                                     *)
(***************************************************************************)
PoolDStep(i) ==
    \/ DStart(i)
    \/ Probe(i)
    \/ CheckDuration(i)
    \/ MoveToTooShort(i)

NextPool ==
    \/ \E n \in FileNames(PoolFiles), k \in GoodKinds : Create(n, k, PoolFiles)
    \/ \E e \in EventUniverse(PoolFiles) : on_created(e, PoolFiles)
    \/ \E i \in 1..PoolFiles : PoolDStep(i)
    \/ \E j \in 1..PoolFiles : TStep(j)

SpecPool == Init /\ [][NextPool]_vars

(***************************************************************************)
(* The shutdown scenario: one file, up to ShutCalls calls of process_file, *)
(* and an interrupt signal at any moment.                                  *)
(***************************************************************************)
NextShutdown ==
    \/ \E n \in FileNames(MaxFiles), k \in AllKinds : Create(n, k, MaxFiles)
    \/ \E n \in FileNames(MaxFiles) : Grow(n)
    \/ Tick(ShutElapsed)
    \/ \E e \in EventUniverse(MaxFiles) : on_created(e, ShutCalls)
    \/ stop
    \/ MainReturns
    \/ \E i \in 1..ShutCalls : DStep(i)
    \/ \E j \in 1..ShutCalls : TStep(j)

SpecShutdown == Init /\ [][NextShutdown]_vars

(***************************************************************************)
(* The busy-transcription scenario: CheapFiles readable files, each        *)
(* dispatched once, and engine calls that do not return, so that the       *)
(* transcription workers stay busy and later accepted files wait in the    *)
(* transcription pool's queue.  The scanner writes one recording after     *)
(* the other, each after the event of the one before it was handled.  The  *)
(* threads of the probe/duration pool keep being scheduled.                *)
(***************************************************************************)
\* the scanner drops the next recording
CreateNext(kind) ==
    /\ Cardinality(DOMAIN dropped) = Len(dtasks)
    /\ Cardinality(DOMAIN dropped) < CheapFiles
    /\ Create(FileName(Cardinality(DOMAIN dropped) + 1), kind, CheapFiles)

CheapTStep(j) ==
    \/ TStart(j)
    \/ TSetDefault(j)
    \/ TAcquire(j)
    \/ TExists(j)
    \/ TEngineCall(j)

NextCheap ==
    \/ \E k \in GoodKinds : CreateNext(k)
    \/ \E e \in EventUniverse(CheapFiles) : on_created(e, CheapFiles)
    \/ \E i \in 1..CheapFiles : PoolDStep(i)
    \/ \E j \in 1..CheapFiles : CheapTStep(j)

SpecCheap ==
    Init /\ [][NextCheap]_vars /\ WF_vars(\E i \in 1..CheapFiles : PoolDStep(i))

(***************************************************************************)
(* The stability prober alone, on every sample sequence of MaxSamples      *)
(* samples.                                                                *)
(***************************************************************************)
InitProbe == Idle /\ probe \in { StartProbe(s) : s \in SampleSeqs(MaxSamples) }

NextProbe == wait_for_file_stability

SpecProbe == InitProbe /\ [][NextProbe]_vars

(***************************************************************************)
(* Vocabulary of the claims.                                               *)
(***************************************************************************)
\* no task of either pool is queued or running
Quiescent ==
    /\ \A i \in 1..Len(dtasks) : dtasks[i].pc = "done"
    /\ \A j \in 1..Len(ttasks) : ttasks[j].pc = "done"

\* some dispatch of the path saw its stability probe return True
Stabilized(path) ==
    \E i \in 1..Len(dtasks) : dtasks[i].path = path /\ dtasks[i].stable = "true"

\* the events e of the engine log of a path
Count(log, e) == Cardinality({ k \in 1..Len(log) : log[k] = e })
EngineLogOf(path) == Get(engineLog, path, <<>>)

\* task j is between acquiring its lock and leaving the with block
InLockedSection(j) ==
    ttasks[j].pc \in {"exists", "engine", "engine_run", "write", "move",
                      "move_error", "in_locks", "del", "release"}

\* the number of tasks submitted to the probe/duration pool for a path
Submitted(path) == Cardinality({ i \in 1..Len(dtasks) : dtasks[i].path = path })

\* the places where the audio file of a name can be
Places(name) ==
    LET path == InboxPath(name)
    IN  { path, ShortPath(path), ErrorPath(path), TargetPath(path) }

(***************************************************************************)
(* C1.  At most one transcription per file: whatever the number and timing *)
(* of the dispatches of its path, the engine is invoked at most once for a *)
(* file that was dropped once.                                             *)
(***************************************************************************)
C1_AtMostOneTranscription ==
    \A name \in DOMAIN dropped :
        Count(EngineLogOf(InboxPath(name)), "call") <= 1

(***************************************************************************)
(* C2.  Per-file mutual exclusion: no two tasks are inside the locked      *)
(* section of _transcribe_and_organize for the same path at once.          *)
(***************************************************************************)
C2_MutualExclusion ==
    \A j1, j2 \in 1..Len(ttasks) :
        (/\ j1 # j2
         /\ ttasks[j1].path = ttasks[j2].path
         /\ InLockedSection(j1))
        => ~InLockedSection(j2)

(***************************************************************************)
(* C3.  Debounce: a call of process_file that comes within                 *)
(* debounce_seconds of a recorded dispatch of the same path submits        *)
(* nothing, so the two calls lead to exactly one task in the probe pool:   *)
(* the tasks submitted for a path are the dispatched calls, and no call    *)
(* within the interval after a dispatched one is dispatched.               *)
(***************************************************************************)
C3_DebounceOneDispatch ==
    \A path \in DOMAIN calls :
        LET log == calls[path] IN
        /\ Submitted(path) = Cardinality({ k \in 1..Len(log) : log[k].d })
        /\ \A a, b \in 1..Len(log) :
              (a < b /\ log[a].d /\ log[b].t - log[a].t <= debounce_seconds)
              => ~log[b].d

\* two calls for a path exactly debounce_seconds apart, one task submitted
C3_Witness ==
    \E path \in DOMAIN calls :
        /\ Len(calls[path]) = 2
        /\ calls[path][1].d
        /\ calls[path][2].t - calls[path][1].t = debounce_seconds
        /\ Submitted(path) = 1

\* the file at q is the file the scanner dropped (it may have grown since)
IsOriginal(q, name) ==
    Has(files, q) /\ [files[q] EXCEPT !.size = 1] = dropped[name]

(***************************************************************************)
(* C4.  Too-short routing: the engine is never invoked for a readable file *)
(* whose duration is below duration_threshold, and once a dispatch of it   *)
(* has stabilized and every task has ended, the file is in the too-short   *)
(* directory under its own name, unchanged, and neither in the watch       *)
(* directory nor in the error directory.                                   *)
(***************************************************************************)
C4_TooShortRouting ==
    \A name \in DOMAIN dropped :
        LET path == InboxPath(name)
            kind == dropped[name]
        IN  (kind.readable /\ kind.dur < duration_threshold) =>
              /\ Count(EngineLogOf(path), "call") = 0
              /\ (Quiescent /\ Stabilized(path)) =>
                    /\ IsOriginal(Join(TOO_SHORT_DIRECTORY, name), name)
                    /\ ~Has(files, path)
                    /\ ~Has(files, TargetPath(path))
                    /\ ~Has(files, Join(ERROR_DIRECTORY, name))

\* a too-short file that two dispatches probed and classified has ended in
\* the too-short directory
C4_Witness ==
    \E name \in DOMAIN dropped :
        /\ dropped[name].readable
        /\ dropped[name].dur < duration_threshold
        /\ Quiescent
        /\ Cardinality({ i \in 1..Len(dtasks) : dtasks[i].stable = "true" }) >= 2
        /\ Has(files, Join(TOO_SHORT_DIRECTORY, name))

C6_FailedRepairOnlyError ==
    \A name \in DOMAIN dropped :
        LET path == InboxPath(name)
            kind == dropped[name]
        IN  (/\ ~kind.readable
             /\ ~kind.fixable \/ ~kind.fixReadable
             /\ Quiescent
             /\ Stabilized(path))
            => /\ Has(files, ErrorPath(path))
               /\ ~Has(files, path)
               /\ ~Has(files, ShortPath(path))
               /\ ~Has(files, TargetPath(path))
               /\ ~Has(files, TempPath(path))

(***************************************************************************)
(* C7.  Engine failure is terminal: after an engine call for a file has    *)
(* failed the engine is not invoked for that file again, and once every    *)
(* task has ended the file is in the error directory and has no            *)
(* transcript.                                                             *)
(***************************************************************************)
C7_EngineFailureTerminal ==
    \A name \in DOMAIN dropped :
        LET path == InboxPath(name)
            log == EngineLogOf(path)
        IN  /\ \A a, b \in 1..Len(log) :
                  (a < b /\ log[a] = "failed") => log[b] # "call"
            /\ (Quiescent /\ Count(log, "failed") >= 1)
               => /\ Has(files, ErrorPath(path))
                  /\ TextPath(path) \notin texts

(***************************************************************************)
(* C8.  Repair outcome: when _attempt_repair_and_retry returns, the        *)
(* original and the temp file are not both on disk, and exactly one of the *)
(* error directory, the too-short directory and the original path holds    *)
(* the surviving file.                                                     *)
(***************************************************************************)
RepairReturns(i) ==
    /\ i \in 1..Len(dtasks)
    /\ dtasks[i].pc \in {"rename_short", "rename_keep", "move_error"}
    /\ dtasks'[i].pc = "done"

RepairOutcome(path) ==
    /\ ~(/\ Has(files, TempPath(path))
         /\ \E q \in Places(NameOf(path)) : IsOriginal(q, NameOf(path)))
    /\ Cardinality({ q \in {ErrorPath(path), ShortPath(path), path} : Has(files, q) }) = 1

C8_RepairOutcome ==
    [][\A i \in 1..MaxCalls : RepairReturns(i) => RepairOutcome(dtasks[i].path)']_vars

(***************************************************************************)
(* C9.  Single location: the audio file of a name is in at most one of the *)
(* inbox, the too-short directory, the error directory and its grouping    *)
(* directory.                                                              *)
(***************************************************************************)
C9_SingleLocation ==
    \A name \in DOMAIN dropped :
        Cardinality({ q \in Places(name) : Has(files, q) }) <= 1

(***************************************************************************)
(* C10.  Bounded transcription parallelism: the engine invocations in      *)
(* progress are never more than max_transcription_workers, however many    *)
(* files the probe/duration pool has accepted.                             *)
(***************************************************************************)
InEngine == { j \in 1..Len(ttasks) : ttasks[j].pc = "engine_run" }

C10_BoundedParallelism ==
    Cardinality(InEngine) <= max_transcription_workers

\* every worker is in an engine call while a third accepted file waits
C10_Witness ==
    /\ Cardinality(InEngine) = max_transcription_workers
    /\ \E j \in 1..Len(ttasks) : ttasks[j].pc = "queued"

(***************************************************************************)
(* C11.  Failure isolation: no exception raised while a file is handled    *)
(* leaves the task that detects it: no execution of                        *)
(* _transcribe_and_organize ends with an exception.  (The probe/duration   *)
(* tasks end every failure in _move_to_error, pc catch_move_error and      *)
(* move_error; a worker whose task ended takes the next queued task.)      *)
(***************************************************************************)
C11_NoExceptionEscapes ==
    \A j \in 1..Len(ttasks) : ~ttasks[j].exc

(***************************************************************************)
(* C12.  Graceful shutdown: the tasks already submitted when the interrupt *)
(* signal arrives keep their normal routing: when every task has ended, a  *)
(* readable file of duration >= duration_threshold that stabilized has     *)
(* reached the transcription pool and the engine was invoked for it.       *)
(***************************************************************************)
C12_GracefulShutdown ==
    \A name \in DOMAIN dropped :
        (/\ dropped[name].readable
         /\ dropped[name].dur >= duration_threshold
         /\ Quiescent
         /\ Stabilized(InboxPath(name)))
        => /\ \E j \in 1..Len(ttasks) : ttasks[j].path = InboxPath(name)
           /\ Count(EngineLogOf(InboxPath(name)), "call") >= 1

(***************************************************************************)
(* C13.  Stability prober result.  After every sample taken, with the      *)
(* counter of consecutive unchanged samples computed from the samples      *)
(* alone: the function has returned True exactly when the counter has      *)
(* reached stability_duration, a sample that differs from the one before   *)
(* it puts the counter back to zero, and the function has returned False   *)
(* exactly when the last sample taken found no file.                       *)
(***************************************************************************)
\* the samples taken so far
Seen == SubSeq(probe.samples, 1, probe.pos)

\* the number of samples at the end of s that equal the sample before them
RECURSIVE TrailingUnchanged(_)
TrailingUnchanged(s) ==
    IF Len(s) < 2 \/ s[Len(s)] = <<>> \/ s[Len(s)] # s[Len(s) - 1] THEN 0
    ELSE 1 + TrailingUnchanged(SubSeq(s, 1, Len(s) - 1))

C13_StabilityResult ==
    probe # NoProbe =>
        /\ (probe.result = "true") <=> (TrailingUnchanged(Seen) = stability_duration)
        /\ (probe.result = "false") <=> (probe.pos > 0 /\ Seen[probe.pos] = <<>>)
        /\ (probe.result = "running") =>
              /\ probe.stable_time = TrailingUnchanged(Seen)
              /\ probe.stable_time < stability_duration
              /\ \A k \in 1..probe.pos : Seen[k] # <<>>

\* True is returned after the size changed once and then stayed the same
C13_Witness ==
    /\ probe.result = "true"
    /\ probe.pos = stability_duration + 2
    /\ Seen[1] # Seen[2]

(***************************************************************************)
(* C14.  Lock lifetime: every execution of _transcribe_and_organize passes *)
(* the removal of its path's entry on its way out (after the missing-file  *)
(* test, after a success, after a failure), and right after that step the  *)
(* lock table holds no entry for the path; hence the lock table holds an   *)
(* entry for a path only while some thread is executing                    *)
(* _transcribe_and_organize for that path.                                 *)
(***************************************************************************)
\* task j is executing _transcribe_and_organize
Executing(j) == ttasks[j].pc \notin {"queued", "done"}

\* task j leaves its with block in this step
LeavesLockedSection(j) ==
    /\ j \in 1..Len(ttasks)
    /\ ttasks[j].pc # "release"
    /\ ttasks'[j].pc = "release"

C14_LockLifetime ==
    /\ [](\A path \in DOMAIN file_locks :
            \E j \in 1..Len(ttasks) : ttasks[j].path = path /\ Executing(j))
    /\ [][\A j \in 1..MaxCalls :
            LeavesLockedSection(j) =>
                /\ ttasks[j].pc \in {"in_locks", "del"}
                /\ ttasks[j].outcome \in {"missing", "ok", "failed"}
                /\ ~Has(file_locks', ttasks[j].path)]_vars

\* two executions for one path have returned, one through the missing-file
\* exit and one after a transcription, and the lock table is empty
C14_Witness ==
    /\ Quiescent
    /\ file_locks = EmptyMap
    /\ \E j1, j2 \in 1..Len(ttasks) :
          /\ ttasks[j1].path = ttasks[j2].path
          /\ ttasks[j1].outcome = "missing"
          /\ ttasks[j2].outcome \in {"ok", "failed"}

(***************************************************************************)
(* C15.  Atomic create-if-absent: the setdefault of line 413 hands the     *)
(* calling thread the lock object that is in the table right after it and  *)
(* never replaces an object that is in the table; so of two threads that   *)
(* enter for the same path while it has no entry, the second obtains the   *)
(* object the first one stored, as long as that entry is in the table.     *)
(***************************************************************************)
\* task j executes line 413 in this step
SetDefaultStep(j) ==
    /\ j \in 1..Len(ttasks)
    /\ ttasks[j].pc = "setdefault"
    /\ ttasks'[j].pc = "acquire"

C15_AtomicCreateIfAbsent ==
    [][\A j \in 1..MaxCalls :
         SetDefaultStep(j) =>
            LET path == ttasks[j].path IN
            /\ Has(file_locks', path)
            /\ ttasks'[j].lock = file_locks'[path]
            /\ Has(file_locks, path) => file_locks'[path] = file_locks[path]
            /\ \A k \in 1..Len(ttasks) :
                  (/\ k # j
                   /\ ttasks[k].path = path
                   /\ ttasks[k].pc \in {"acquire", "exists"}
                   /\ Has(file_locks, path)
                   /\ file_locks[path] = ttasks[k].lock)
                  => ttasks'[j].lock = ttasks[k].lock]_vars

\* two threads have entered for one path and executed line 413 before
\* either has acquired the lock: both have the object that one of them stored
C15_Witness ==
    \E j, k \in 1..Len(ttasks) :
        /\ j # k
        /\ ttasks[j].path = ttasks[k].path
        /\ ttasks[k].pc = "acquire"
        /\ ttasks[j].pc = "acquire"
        /\ ttasks[j].lock = ttasks[k].lock
        /\ ttasks[k].lock = k
        /\ held = {}

(***************************************************************************)
(* C16.  Stage ordering within one dispatch.  A transcription task for     *)
(* which the engine was invoked was submitted by a dispatch of the same    *)
(* path whose probe returned True and which then either read a duration    *)
(* >= duration_threshold from the original path, or failed to read it,     *)
(* re-encoded once and read a duration >= duration_threshold from the      *)
(* copy.  In every dispatch the re-encoder runs at most once, directly     *)
(* after a failed read of the original path, and nothing happens before    *)
(* the probe has returned True.                                            *)
(***************************************************************************)
\* the engine has been invoked by transcription task j
Invoked(j) == ttasks[j].pc = "engine_run" \/ ttasks[j].outcome \in {"ok", "failed"}

\* the dispatches that submitted transcription task j
Origins(j) ==
    { i \in 1..Len(dtasks) :
        \E k \in 1..Len(dtasks[i].stages) : dtasks[i].stages[k] = <<"submit", j>> }

DirectStages(st, j) ==
    /\ Len(st) = 2
    /\ st[1][1] = "read" /\ st[1][2] >= duration_threshold
    /\ st[2] = <<"submit", j>>

RepairStages(st, j) ==
    /\ Len(st) = 4
    /\ st[1] = <<"read", -1>>
    /\ st[2] = <<"reencode", 1>>
    /\ st[3][1] = "reread" /\ st[3][2] >= duration_threshold
    /\ st[4] = <<"submit", j>>

C16_StageOrdering ==
    /\ \A j \in 1..Len(ttasks) :
          Invoked(j) =>
             \E i \in 1..Len(dtasks) :
                /\ Origins(j) = {i}
                /\ dtasks[i].path = ttasks[j].path
                /\ dtasks[i].stable = "true"
                /\ DirectStages(dtasks[i].stages, j) \/ RepairStages(dtasks[i].stages, j)
    /\ \A i \in 1..Len(dtasks) :
          LET st == dtasks[i].stages IN
          /\ st # <<>> => dtasks[i].stable = "true"
          /\ \A k \in 1..Len(st) :
                st[k][1] = "reencode" => (k = 2 /\ st[1] = <<"read", -1>>)

\* the engine runs for a file that its dispatch repaired first
C16_Witness ==
    \E j \in 1..Len(ttasks) :
        /\ ttasks[j].pc = "engine_run"
        /\ \E i \in Origins(j) : RepairStages(dtasks[i].stages, j)

(***************************************************************************)
(* C17.  Defined outcome: once every task has ended, a file whose path was *)
(* dispatched and whose probe returned True is in exactly one of the       *)
(* too-short directory, the error directory and watch/<key>/, and not in   *)
(* the inbox root; a file that is still in the inbox root had no probe     *)
(* return True.                                                            *)
(***************************************************************************)
Outcomes(path) == { ShortPath(path), ErrorPath(path), TargetPath(path) }

C17_DefinedOutcome ==
    \A name \in DOMAIN dropped :
        LET path == InboxPath(name) IN
        (Quiescent /\ Submitted(path) >= 1) =>
            /\ Stabilized(path) =>
                  /\ Cardinality({ q \in Outcomes(path) : Has(files, q) }) = 1
                  /\ ~Has(files, path)
            /\ Has(files, path) => ~Stabilized(path)

(***************************************************************************)
(* C18.  Transcript before audio: whenever the audio file of a name is     *)
(* under watch/<key>/, the .txt of its stem is in that directory too; and  *)
(* a task that stands between the two steps has written the transcript     *)
(* and not yet moved the audio, so stopping there leaves no grouped audio  *)
(* without its transcript.                                                 *)
(***************************************************************************)
C18_TranscriptBeforeAudio ==
    /\ \A name \in DOMAIN dropped :
          Has(files, TargetPath(InboxPath(name)))
          => /\ TextPath(InboxPath(name)) \in texts
             /\ ParentOf(TextPath(InboxPath(name))) = ParentOf(TargetPath(InboxPath(name)))
             /\ ParentOf(TargetPath(InboxPath(name))) \in dirs
    /\ \A j \in 1..Len(ttasks) :
          ttasks[j].pc = "move" => TextPath(ttasks[j].path) \in texts

\* a transcription task has ended after moving the audio next to its text
C18_Witness ==
    \E j \in 1..Len(ttasks) :
        /\ ttasks[j].pc = "done"
        /\ ttasks[j].outcome = "ok"
        /\ Has(files, TargetPath(ttasks[j].path))
        /\ ~Has(files, ttasks[j].path)
        /\ TextPath(ttasks[j].path) \in texts

(***************************************************************************)
(* C19.  Missing-file short-circuit: an execution of                       *)
(* _transcribe_and_organize that finds no file at its path after acquiring *)
(* the lock changes no file, transcript or directory and invokes no        *)
(* engine, leaves the lock table without an entry for the path when it     *)
(* leaves the with block, and ends without an exception.                   *)
(***************************************************************************)
\* a step of task j on the missing-file exit
ShortCircuitStep(j) ==
    /\ j \in 1..Len(ttasks)
    /\ ttasks'[j] # ttasks[j]
    /\ ttasks'[j].outcome = "missing"

ShortCircuitFrame ==
    \A j \in 1..MaxCalls :
        ShortCircuitStep(j) =>
            /\ UNCHANGED <<files, texts, dirs, engineLog>>
            /\ ttasks'[j].pc = "release" => ~Has(file_locks', ttasks[j].path)

ShortCircuitReturns ==
    \A j \in 1..Len(ttasks) : ttasks[j].outcome = "missing" => ~ttasks[j].exc

C19_MissingFileShortCircuit ==
    [][ShortCircuitFrame]_vars /\ []ShortCircuitReturns

(***************************************************************************)
(* C20.  Failed probe leaves the file untouched: the step in which         *)
(* wait_for_file_stability returns False ends _wait_and_process and        *)
(* changes no file, transcript or directory, submits no transcription      *)
(* task and leaves the lock table and the debounce table as they are; the  *)
(* debounce entry of the path stays a past dispatch time, so process_file  *)
(* dispatches the path again at any time later than debounce_seconds       *)
(* after it.                                                               *)
(***************************************************************************)
ProbeReturnsFalse(i) ==
    /\ i \in 1..Len(dtasks)
    /\ dtasks[i].stable = "none"
    /\ dtasks'[i].stable = "false"

FailedProbeFrame ==
    \A i \in 1..MaxCalls :
        ProbeReturnsFalse(i) =>
            /\ UNCHANGED <<files, texts, dirs, ttasks, file_locks, held, file_times>>
            /\ dtasks'[i].pc = "done"

FailedProbeRetry ==
    \A i \in 1..Len(dtasks) :
        dtasks[i].stable = "false" =>
            LET path == dtasks[i].path IN
            /\ dtasks[i].pc = "done"
            /\ dtasks[i].stages = <<>>
            /\ Has(file_times, path)
            /\ file_times[path] <= now
            /\ \A t \in (file_times[path] + debounce_seconds + 1)..(StartTime + MaxElapsed + 1) :
                  DebouncePassed(t, file_times[path])

C20_FailedProbeUntouched ==
    [][FailedProbeFrame]_vars /\ []FailedProbeRetry

\* after a probe of the path had returned False, a later creation event
\* dispatched the path again
C20_Witness ==
    \E path \in DOMAIN calls :
        \E k \in 1..Len(calls[path]) :
            /\ calls[path][k].d
            /\ calls[path][k].failed >= 1
            /\ Submitted(path) = MaxCalls

(***************************************************************************)
(* C21.  Cheap checks are not serialized behind transcription: with engine *)
(* calls that never return, again and again every dispatch made so far has *)
(* run to its end in the probe/duration pool, with every dispatched        *)
(* readable file of duration below duration_threshold in the too-short     *)
(* directory; so neither the probe and classification nor the submit to    *)
(* the transcription pool waits for a transcription to finish.             *)
(***************************************************************************)
\* the i-th dispatch has ended
DTaskEnded(i) == i <= Len(dtasks) /\ dtasks[i].pc = "done"

\* the i-th dispatch is of a readable file of duration below the threshold
ShortDispatched(i) ==
    /\ i <= Len(dtasks)
    /\ TooShort(dropped[NameOf(dtasks[i].path)].dur)

InTooShort(i) == i <= Len(dtasks) /\ Has(files, ShortPath(dtasks[i].path))

\* every dispatch made so far has ended, the too-short files in their place
CheapChecksDone ==
    \A i \in 1..Len(dtasks) :
        /\ DTaskEnded(i)
        /\ ShortDispatched(i) => InTooShort(i)

C21_CheapChecksNotSerialized == []<>CheapChecksDone

\* both transcription workers are in an engine call, an accepted file waits
\* in the queue, and the file dispatched last is in the too-short directory
C21_Witness ==
    /\ Cardinality(InEngine) = max_transcription_workers
    /\ \E j \in 1..Len(ttasks) : ttasks[j].pc = "queued"
    /\ Len(dtasks) = CheapFiles
    /\ ShortDispatched(CheapFiles)
    /\ InTooShort(CheapFiles)


(***************************************************************************)
(* C22.  The lock table names the lock of the thread inside: whenever a    *)
(* thread is inside the locked section of _transcribe_and_organize for a   *)
(* path and has not yet deleted the entry itself, the table's entry of the *)
(* path is the lock object that thread holds; and a del of the entry never *)
(* removes a lock object that another thread created and that this other   *)
(* thread holds or waits for.                                              *)
(***************************************************************************)
\* task j holds its lock and has not passed its own del
BeforeOwnDel(j) ==
    ttasks[j].pc \in {"exists", "engine", "engine_run", "write", "move",
                      "move_error", "in_locks", "del"}

\* the table's entry of the path of every task inside is that task's lock
EntryIsHeldLock ==
    \A j \in 1..Len(ttasks) :
        BeforeOwnDel(j) =>
            /\ Has(file_locks, ttasks[j].path)
            /\ file_locks[ttasks[j].path] = ttasks[j].lock

\* task k created the lock object it obtained, and holds it or waits for it
HoldsOrAwaitsOwn(k) ==
    /\ ttasks[k].lock = k
    /\ \/ ttasks[k].pc = "acquire"
       \/ InLockedSection(k)

\* task j removes the table's entry of its path in this step
DeletesEntry(j) ==
    /\ j \in 1..Len(ttasks)
    /\ ttasks[j].pc = "del"
    /\ Has(file_locks, ttasks[j].path)
    /\ ~Has(file_locks', ttasks[j].path)

DelRemovesNoForeignLock ==
    \A j \in 1..MaxCalls :
        DeletesEntry(j) =>
            \A k \in 1..Len(ttasks) :
                (k # j /\ file_locks[ttasks[j].path] = k) => ~HoldsOrAwaitsOwn(k)

C22_LockTableOwnership ==
    /\ []EntryIsHeldLock
    /\ [][DelRemovesNoForeignLock]_vars

(***************************************************************************)
(* C23.  Routing under duplicate dispatch: whatever the number of          *)
(* dispatches of its path, once every task has ended a file that was seen  *)
(* stable, that is acceptable as it is or after a repair, and for which no *)
(* engine call failed, is not in the error directory and has not           *)
(* disappeared from all directories.                                       *)
(***************************************************************************)
\* contents the duration check passes on to transcription
Acceptable(c) == c.readable /\ ~TooShort(c.dur)

\* unreadable contents whose re-encoded copy the duration check passes on
Repairable(c) ==
    /\ ~c.readable
    /\ c.fixable
    /\ c.fixReadable
    /\ ~TooShort(c.fixDur)

\* no engine call for the path has raised
NoEngineFailure(path) == Count(EngineLogOf(path), "failed") = 0

C23_RoutingUnderDuplicateDispatch ==
    \A name \in DOMAIN dropped :
        LET path == InboxPath(name) IN
        (/\ Quiescent
         /\ Stabilized(path)
         /\ Acceptable(dropped[name]) \/ Repairable(dropped[name])
         /\ NoEngineFailure(path))
        => /\ ~Has(files, ErrorPath(path))
           /\ \E q \in Places(name) : Has(files, q)

====
